---- MODULE Spec2Model ----
(***************************************************************************)
(* Model of the VPS renewal script src/main.mjs: one run of the script is  *)
(* the try / catch / finally of lines 173-355; runs follow one another and *)
(* share only the file expire.txt.                                         *)
(*                                                                         *)
(* Strings are sequences of one-character strings.  The module is ASCII,   *)
(* so the CJK characters of the source are written as the letters below.   *)
(***************************************************************************)
EXTENDS Integers, Sequences, FiniteSets, TLC

\* ------------------------------------------------------------------------
\* Characters and literals of the source
\* ------------------------------------------------------------------------
Nen == "Y"                      \* the year sign of the date pattern
Gatsu == "M"                    \* the month sign
Nichi == "D"                    \* the day sign
Space == " "                    \* a whitespace character (\s)
Digits == {"0", "1", "2", "3", "4", "5", "6", "7", "8", "9"}
Unknown == <<"u", "k">>         \* the two-character placeholder of formatChineseDate
NoTd == <<"n">>                 \* the one-character placeholder for a th without td
LabelText == <<"r", "k">>       \* the label of the expiration row
EmptyStr == <<>>

At(s, i) == IF i \in 1..Len(s) THEN s[i] ELSE "eos"
IsDigitAt(s, i) == At(s, i) \in Digits
Sub(s, i, n) == [k \in 1..n |-> s[i + k - 1]]

\* \d{1,2} followed by the literal c, tried at position i: the number of
\* digits the regex engine ends up taking (0: no match)
DigitsBefore(s, i, c) ==
    IF IsDigitAt(s, i) /\ IsDigitAt(s, i + 1) /\ At(s, i + 2) = c THEN 2
    ELSE IF IsDigitAt(s, i) /\ At(s, i + 1) = c THEN 1
    ELSE 0

\* /(\d{4})Y(\d{1,2})M(\d{1,2})D/ anchored at position i
MatchAt(s, i) ==
    LET yOk == /\ \A k \in 0..3 : IsDigitAt(s, i + k)
               /\ At(s, i + 4) = Nen
        moLen == DigitsBefore(s, i + 5, Gatsu)
        dLen == DigitsBefore(s, i + 5 + moLen + 1, Nichi)
    IN  IF yOk /\ moLen > 0 /\ dLen > 0
        THEN [found |-> TRUE,
              y |-> Sub(s, i, 4),
              mo |-> Sub(s, i + 5, moLen),
              d |-> Sub(s, i + 5 + moLen + 1, dLen),
              all |-> Sub(s, i, 4 + 1 + moLen + 1 + dLen + 1)]
        ELSE [found |-> FALSE, y |-> <<>>, mo |-> <<>>, d |-> <<>>, all |-> <<>>]

\* the match at the first position from i on that has one
RECURSIVE FirstMatch(_, _)
FirstMatch(s, i) ==
    IF i > Len(s) THEN MatchAt(s, 0)
    ELSE IF MatchAt(s, i).found THEN MatchAt(s, i)
    ELSE FirstMatch(s, i + 1)

\* String.prototype.match with that (non-global) regex: the leftmost match
MatchDate(s) == FirstMatch(s, 1)

\* Mutant of padStart2: the zero is put in front whatever the length
padStart2_always(x) == <<"0">> \o x

\* String(x).padStart(2, '0')
padStart2(x) == IF Len(x) < 2 THEN <<"0">> \o x ELSE x

\* s.replace(/\s/g, '')
RECURSIVE StripWs(_)
StripWs(s) ==
    IF s = <<>> THEN <<>>
    ELSE IF Head(s) = Space THEN StripWs(Tail(s))
    ELSE <<Head(s)>> \o StripWs(Tail(s))

\* s.trim()
RECURSIVE TrimLeft(_)
TrimLeft(s) == IF s # <<>> /\ Head(s) = Space THEN TrimLeft(Tail(s)) ELSE s

RECURSIVE TrimRight(_)
TrimRight(s) ==
    IF s # <<>> /\ s[Len(s)] = Space THEN TrimRight(SubSeq(s, 1, Len(s) - 1)) ELSE s

Trim(s) == TrimRight(TrimLeft(s))

\* Mutant of formatChineseDate: the matched date is rebuilt without padding
formatChineseDate_noPad(dateStr) ==
    LET m == MatchDate(dateStr)
    IN  IF dateStr = EmptyStr THEN Unknown
        ELSE IF ~m.found THEN dateStr
        ELSE m.y \o <<Nen>> \o m.mo \o <<Gatsu>> \o m.d \o <<Nichi>>

\* formatChineseDate(dateStr), src/main.mjs:10-15
formatChineseDate(dateStr) ==
    LET m == MatchDate(dateStr)
    IN  IF dateStr = EmptyStr THEN Unknown
        ELSE IF ~m.found THEN dateStr
        ELSE m.y \o <<Nen>> \o padStart2(m.mo) \o <<Gatsu>> \o padStart2(m.d) \o <<Nichi>>

\* The list built inside page.evaluate: one {th, td} item per th element
thTdList(doc) ==
    [k \in 1..Len(doc) |->
        [th |-> Trim(doc[k].th),
         td |-> IF doc[k].hasTd THEN Trim(doc[k].td) ELSE NoTd]]

\* getExpirationDate(page), src/main.mjs:100-130; evalThrows: page.evaluate
\* rejects and the catch returns ''
getExpirationDate(doc, evalThrows) ==
    LET items == thTdList(doc)
        rows == {k \in 1..Len(items) : items[k].th = LabelText}
    IN  IF evalThrows \/ rows = {} THEN EmptyStr
        ELSE LET item == items[CHOOSE k \in rows : \A j \in rows : k <= j]
                 match == MatchDate(StripWs(item.td))
             IN  IF match.found THEN match.all ELSE item.td

\* ------------------------------------------------------------------------
\* Inputs
\* ------------------------------------------------------------------------
MaxCodeLen == 4                 \* longest text the recognition endpoint returns

DatePadded == <<"2", "0", "2", "5", "Y", "0", "7", "M", "0", "7", "D">>
DateUnpadded == <<"2", "0", "2", "5", "Y", "7", "M", "7", "D">>
DateNext == <<"2", "0", "2", "5", "Y", "0", "8", "M", "0", "7", "D">>
RawText == <<"x", Space, "y">>

Row(th, hasTd, td) == [th |-> th, hasTd |-> hasTd, td |-> td]

\* The th elements of the contract page with the element that follows each
Docs ==
    { <<Row(<<"o">>, TRUE, <<"x">>)>>,                              \* no expiration row
      <<Row(LabelText, FALSE, <<>>)>>,                               \* row without td
      <<Row(<<"o">>, TRUE, <<"x">>),
        Row(<<Space>> \o LabelText, TRUE, <<Space>> \o DatePadded \o <<Space, "z">>)>>,
      <<Row(LabelText, TRUE, DateUnpadded)>>,
      <<Row(LabelText, TRUE, DateNext)>>,
      <<Row(LabelText, TRUE, RawText)>> }

\* The contract page before the renewal
PreDocs ==
    { <<Row(<<"o">>, TRUE, <<"x">>)>>,
      <<Row(LabelText, TRUE, DateUnpadded)>>,
      <<Row(LabelText, TRUE, RawText)>> }

\* What expire.txt holds before the first run: missing, or left by an
\* earlier run or an earlier version of the script
NoFile == [exists |-> FALSE, content |-> EmptyStr]
FileOf(s) == [exists |-> TRUE, content |-> s]
InitialFiles == {NoFile, FileOf(DatePadded), FileOf(DateUnpadded \o <<Space>>)}

\* A page as the script sees it: the too-early marker in its text, an inline
\* (data:) image in its DOM
Pages == [marker : BOOLEAN, img : BOOLEAN]
BlankPage == [marker |-> FALSE, img |-> FALSE]

\* The date in front of the retry hint of the too-early page, '' when the
\* hint is missing
AvailTexts == {EmptyStr, DateUnpadded}

\* Texts the recognition endpoint answers with, by length
CodeOfLen(n) == [k \in 1..n |-> "7"]
Codes == {CodeOfLen(n) : n \in 0..MaxCodeLen}

\* ------------------------------------------------------------------------
\* Messages: a string is a sequence of parts, '' is the empty sequence
\* ------------------------------------------------------------------------
Part(kind, a, b) == [kind |-> kind, a |-> a, b |-> b]
Separator == Part("separator", EmptyStr, EmptyStr)
OrUnknown(s) == IF s = EmptyStr THEN Unknown ELSE s       \* s || 'unknown'

NotYetMessage(avail, cur) == <<Part("notYet", OrUnknown(avail), OrUnknown(cur))>>
SuccessMessage(new) == <<Part("success", new, EmptyStr)>>
FailMessage(new) == <<Part("unchanged", new, EmptyStr)>>
ErrorMessage(e) == <<Part("error", <<e>>, EmptyStr)>>
UploadOkMessage == <<Part("uploadOk", EmptyStr, EmptyStr)>>
UploadFailMessage == <<Part("uploadFailed", EmptyStr, EmptyStr)>>

ErrCaptcha == "captcha unresolved"          \* Error of main.mjs:267
ErrNoDate == "expiration date not found"    \* Error of main.mjs:315
ErrStep == "page or file operation failed"  \* rejection of an awaited step
ErrWrite == "writing expire.txt failed"     \* fs.writeFileSync throws

maxCaptchaTries == 3

\* ------------------------------------------------------------------------
\* State
\* ------------------------------------------------------------------------
VARIABLES
    pc,                 \* position of the script
    expireFile,         \* expire.txt: [exists, content]
    lastExpireDate, currentExpireDate,
    page,               \* the page the browser shows
    attempt, solved, code,
    newExpireDateRaw, newExpireDate,
    infoMessage, scriptErrorMessage, webdavMessage, finalNotification,
    obs                 \* what the run did to the outside world

vars == <<pc, expireFile, lastExpireDate, currentExpireDate, page, attempt, solved,
          code, newExpireDateRaw, newExpireDate, infoMessage, scriptErrorMessage,
          webdavMessage, finalNotification, obs>>

NoObs ==
    [fileAtStart |-> NoFile,    \* expire.txt when the run began
     fileReads |-> 0,           \* reads of expire.txt
     fileWrites |-> <<>>,       \* values handed to writeFileSync(expireDateFile, ..)
     renewPage |-> BlankPage,   \* the page shown after the renewal was initiated
     initiated |-> FALSE,
     recogRequests |-> 0,       \* POSTs to the recognition endpoint
     fills |-> <<>>,            \* codes typed into the code input
     submitClicks |-> 0,        \* clicks of the submit race
     reloads |-> 0,             \* page reloads after a submit without navigation
     navStatus |-> "none",      \* how the last submit's navigation wait settled
     firstSettled |-> "none",   \* how the promise that settled first in it settled
     screenshots |-> {},        \* attempt indices of captcha_failed_N.png
     dumps |-> 0,               \* no_captcha.html written
     probesAbsent |-> {},       \* attempts whose probe found no image
     finalClicks |-> 0,         \* clicks of the final confirmation
     rereads |-> 0,             \* reads of the contract page after the renewal
     cleanupRuns |-> 0,         \* entries into the finally block
     closed |-> FALSE,          \* recorder stopped and browser closed
     upload |-> "notRun",       \* the upload step: noRecording or uploadToWebDAV's case
     sendCalls |-> <<>>,        \* messages handed to sendTelegramMessage
     tgResult |-> "none",       \* what became of the message in sendTelegramMessage
     tgPosts |-> 0]             \* POSTs to the chat API

Init ==
    /\ pc = "start"
    /\ expireFile \in InitialFiles
    /\ lastExpireDate = EmptyStr
    /\ currentExpireDate = EmptyStr
    /\ page = BlankPage
    /\ attempt = 0
    /\ solved = FALSE
    /\ code = EmptyStr
    /\ newExpireDateRaw = EmptyStr
    /\ newExpireDate = EmptyStr
    /\ infoMessage = EmptyStr
    /\ scriptErrorMessage = EmptyStr
    /\ webdavMessage = EmptyStr
    /\ finalNotification = EmptyStr
    /\ obs = [NoObs EXCEPT !.fileAtStart = expireFile]

\* ------------------------------------------------------------------------
\* The try block, src/main.mjs:173-318
\* ------------------------------------------------------------------------

\* Mutant of Catch: the handler ends the process instead of falling into finally
Catch_exit(e) ==
    /\ scriptErrorMessage' = ErrorMessage(e)
    /\ pc' = "done"

\* Mutant of Catch: the handler logs the error and keeps no message
Catch_logOnly(e) ==
    /\ scriptErrorMessage' = scriptErrorMessage
    /\ pc' = "finally"

\* catch (e): the error becomes the error message and the finally block follows
Catch(e) ==
    /\ scriptErrorMessage' = ErrorMessage(e)
    /\ pc' = "finally"

\* Positions whose awaited page or file operation may reject
ThrowPoints ==
    {"start", "login", "panel", "contract", "initiate", "captcha", "fill", "submit",
     "check", "confirm", "reread"}

Throw ==
    /\ pc \in ThrowPoints
    /\ Catch(ErrStep)
    /\ UNCHANGED <<expireFile, lastExpireDate, currentExpireDate, page, attempt, solved,
                   code, newExpireDateRaw, newExpireDate, infoMessage, webdavMessage,
                   finalNotification, obs>>

\* fs.existsSync / fs.readFileSync(...).trim()
ReadExpireFile ==
    /\ pc = "start"
    /\ lastExpireDate' =
           IF expireFile.exists THEN Trim(expireFile.content) ELSE lastExpireDate
    /\ obs' = [obs EXCEPT !.fileReads = @ + (IF expireFile.exists THEN 1 ELSE 0)]
    /\ pc' = "login"
    /\ UNCHANGED <<expireFile, currentExpireDate, page, attempt, solved, code,
                   newExpireDateRaw, newExpireDate, infoMessage, scriptErrorMessage,
                   webdavMessage, finalNotification>>

Step(from, to) ==
    /\ pc = from
    /\ pc' = to
    /\ UNCHANGED <<expireFile, lastExpireDate, currentExpireDate, page, attempt, solved,
                   code, newExpireDateRaw, newExpireDate, infoMessage,
                   scriptErrorMessage, webdavMessage, finalNotification, obs>>

Login == Step("login", "panel")
GotoPanel == Step("panel", "contract")
OpenContract == Step("contract", "extract")

\* the expiration date read once before the renewal
ReadCurrentDate ==
    /\ pc = "extract"
    /\ \E doc \in PreDocs, evalThrows \in BOOLEAN :
           currentExpireDate' = formatChineseDate(getExpirationDate(doc, evalThrows))
    /\ pc' = "initiate"
    /\ UNCHANGED <<expireFile, lastExpireDate, page, attempt, solved, code,
                   newExpireDateRaw, newExpireDate, infoMessage, scriptErrorMessage,
                   webdavMessage, finalNotification, obs>>

\* the two clicks that initiate the renewal, the navigation, and the loop header
Initiate ==
    /\ pc = "initiate"
    /\ \E p \in Pages :
           /\ page' = p
           /\ obs' = [obs EXCEPT !.renewPage = p, !.initiated = TRUE]
    /\ attempt' = 1
    /\ solved' = FALSE
    /\ pc' = "captcha"
    /\ UNCHANGED <<expireFile, lastExpireDate, currentExpireDate, code, newExpireDateRaw,
                   newExpireDate, infoMessage, scriptErrorMessage, webdavMessage,
                   finalNotification>>

\* Mutant of NextAttempt: the loop condition lets a fourth attempt start
NextAttempt_offByOne ==
    /\ attempt' = attempt + 1
    /\ pc' = IF attempt + 1 <= maxCaptchaTries + 1 THEN "captcha" ELSE "afterLoop"

\* Mutant of NextAttempt: the loop condition never ends the loop
NextAttempt_noExit ==
    /\ attempt' = attempt + 1
    /\ pc' = "captcha"

\* continue / end of the loop body: attempt++ and the loop condition
NextAttempt ==
    /\ attempt' = attempt + 1
    /\ pc' = IF attempt + 1 <= maxCaptchaTries THEN "captcha" ELSE "afterLoop"

\* the probe finds no inline image: the page is saved to no_captcha.html, break
CaptchaAbsent ==
    /\ pc = "captcha"
    /\ ~page.img
    /\ \E dumpOk \in BOOLEAN :
           IF dumpOk
           THEN /\ obs' = [obs EXCEPT !.dumps = @ + 1, !.probesAbsent = @ \cup {attempt}]
                /\ solved' = TRUE
                /\ pc' = "afterLoop"
                /\ UNCHANGED scriptErrorMessage
           ELSE /\ obs' = [obs EXCEPT !.probesAbsent = @ \cup {attempt}]
                /\ Catch(ErrStep)
                /\ UNCHANGED solved
    /\ UNCHANGED <<expireFile, lastExpireDate, currentExpireDate, page, attempt, code,
                   newExpireDateRaw, newExpireDate, infoMessage, webdavMessage,
                   finalNotification>>

\* Mutant of CodeRejected: only the empty answer is rejected
CodeRejected_noLength(c) == c = EmptyStr

\* if (!code || code.length < 4)
CodeRejected(c) == c = EmptyStr \/ Len(c) < 4

\* the probe finds an image: it is posted to the recognition endpoint; a failed
\* request or a rejected code takes a screenshot and continues
CaptchaRecognize ==
    /\ pc = "captcha"
    /\ page.img
    /\ \E netOk \in BOOLEAN, c \in Codes, shotOk \in BOOLEAN :
           IF netOk /\ ~CodeRejected(c)
           THEN /\ code' = c
                /\ obs' = [obs EXCEPT !.recogRequests = @ + 1]
                /\ pc' = "fill"
                /\ UNCHANGED <<attempt, scriptErrorMessage>>
           ELSE /\ code' = EmptyStr
                /\ IF shotOk
                   THEN /\ obs' = [obs EXCEPT !.recogRequests = @ + 1,
                                              !.screenshots = @ \cup {attempt}]
                        /\ NextAttempt
                        /\ UNCHANGED scriptErrorMessage
                   ELSE /\ obs' = [obs EXCEPT !.recogRequests = @ + 1]
                        /\ Catch(ErrStep)
                        /\ UNCHANGED attempt
    /\ UNCHANGED <<expireFile, lastExpireDate, currentExpireDate, page, solved,
                   newExpireDateRaw, newExpireDate, infoMessage, webdavMessage,
                   finalNotification>>

\* the code is typed into the input and the auto-click timer is injected
CaptchaFill ==
    /\ pc = "fill"
    /\ obs' = [obs EXCEPT !.fills = Append(@, code)]
    /\ pc' = "submit"
    /\ UNCHANGED <<expireFile, lastExpireDate, currentExpireDate, page, attempt, solved,
                   code, newExpireDateRaw, newExpireDate, infoMessage,
                   scriptErrorMessage, webdavMessage, finalNotification>>

\* How a promise settles
Settled == {"fulfilled", "rejected"}

\* Mutant of navigated: Promise.race, the promise that settles first decides
navigated_race(nav, click, navFirst) ==
    (IF navFirst THEN nav ELSE click) = "fulfilled"

\* const [nav] = await Promise.allSettled([waitForNavigation, click]);
\* nav.status === 'fulfilled': both promises have settled, in either order, and
\* only the navigation's result is looked at
navigated(nav, click, navFirst) == nav = "fulfilled"

\* the submit step: the wait and the click, then break or reload
CaptchaSubmit ==
    /\ pc = "submit"
    /\ \E nav \in Settled, click \in Settled, navFirst \in BOOLEAN,
          reloadOk \in BOOLEAN, p \in Pages :
           LET seen == [obs EXCEPT !.submitClicks = @ + 1,
                                   !.navStatus = nav,
                                   !.firstSettled = IF navFirst THEN nav ELSE click]
           IN  IF navigated(nav, click, navFirst)
               THEN /\ obs' = seen
                    /\ solved' = TRUE
                    /\ page' = p
                    /\ pc' = "afterLoop"
                    /\ UNCHANGED <<attempt, scriptErrorMessage>>
               ELSE IF reloadOk
               THEN /\ obs' = [seen EXCEPT !.reloads = @ + 1]
                    /\ page' = p
                    /\ NextAttempt
                    /\ UNCHANGED <<solved, scriptErrorMessage>>
               ELSE /\ obs' = seen
                    /\ Catch(ErrStep)
                    /\ UNCHANGED <<page, attempt, solved>>
    /\ UNCHANGED <<expireFile, lastExpireDate, currentExpireDate, code, newExpireDateRaw,
                   newExpireDate, infoMessage, webdavMessage, finalNotification>>

\* Mutant of AfterLoop: the solved flag is not tested after the loop
AfterLoop_noThrow ==
    /\ pc = "afterLoop"
    /\ pc' = "check"
    /\ UNCHANGED <<expireFile, lastExpireDate, currentExpireDate, page, attempt, solved,
                   code, newExpireDateRaw, newExpireDate, infoMessage, scriptErrorMessage,
                   webdavMessage, finalNotification, obs>>

\* if (!solved) throw
AfterLoop ==
    /\ pc = "afterLoop"
    /\ IF ~solved
       THEN Catch(ErrCaptcha)
       ELSE pc' = "check" /\ UNCHANGED scriptErrorMessage
    /\ UNCHANGED <<expireFile, lastExpireDate, currentExpireDate, page, attempt, solved,
                   code, newExpireDateRaw, newExpireDate, infoMessage, webdavMessage,
                   finalNotification, obs>>

\* the too-early marker of the page text
CheckTooEarly ==
    /\ pc = "check"
    /\ IF page.marker
       THEN \E avail \in AvailTexts :
                LET renewAvailableDate ==
                        IF MatchDate(avail).found
                        THEN formatChineseDate(MatchDate(avail).all)
                        ELSE EmptyStr
                IN  /\ infoMessage' = NotYetMessage(renewAvailableDate, currentExpireDate)
                    /\ pc' = "finally"
       ELSE /\ pc' = "confirm"
            /\ UNCHANGED infoMessage
    /\ UNCHANGED <<expireFile, lastExpireDate, currentExpireDate, page, attempt, solved,
                   code, newExpireDateRaw, newExpireDate, scriptErrorMessage,
                   webdavMessage, finalNotification, obs>>

\* the final confirmation click and the navigation back to the panel
Confirm ==
    /\ pc = "confirm"
    /\ obs' = [obs EXCEPT !.finalClicks = @ + 1]
    /\ pc' = "reread"
    /\ UNCHANGED <<expireFile, lastExpireDate, currentExpireDate, page, attempt, solved,
                   code, newExpireDateRaw, newExpireDate, infoMessage,
                   scriptErrorMessage, webdavMessage, finalNotification>>

\* back to the contract page and the fresh read of the expiration date
Reread ==
    /\ pc = "reread"
    /\ \E doc \in Docs, evalThrows \in BOOLEAN :
           /\ newExpireDateRaw' = getExpirationDate(doc, evalThrows)
           /\ newExpireDate' = formatChineseDate(getExpirationDate(doc, evalThrows))
    /\ obs' = [obs EXCEPT !.rereads = @ + 1]
    /\ pc' = "classify"
    /\ UNCHANGED <<expireFile, lastExpireDate, currentExpireDate, page, attempt, solved,
                   code, infoMessage, scriptErrorMessage, webdavMessage,
                   finalNotification>>

\* Mutant of classify: the fresh date is compared with the file's text as read
classify_raw(fresh, last) ==
    IF fresh # EmptyStr /\ fresh # last THEN "success"
    ELSE IF fresh # EmptyStr THEN "unchanged"
    ELSE "noDate"

\* the conditions of the if / else if / else after the fresh read
classify(fresh, last) ==
    IF fresh # EmptyStr /\ fresh # formatChineseDate(last) THEN "success"
    ELSE IF fresh # EmptyStr THEN "unchanged"
    ELSE "noDate"

\* fs.writeFileSync(expireDateFile, value): the file after the call; a call
\* that throws leaves the file as it was or truncated
WriteResults == {"ok", "failedUntouched", "failedTruncated"}
FileAfterWrite(result, value) ==
    IF result = "ok" THEN FileOf(value)
    ELSE IF result = "failedTruncated" THEN FileOf(EmptyStr)
    ELSE expireFile

\* Mutant of Classify: the fresh date is compared with the date read before
\* the renewal instead of the value read from expire.txt
Classify_vsCurrent ==
    /\ pc = "classify"
    /\ LET c == classify(newExpireDate, currentExpireDate)
       IN  IF c = "success"
           THEN /\ infoMessage' = SuccessMessage(newExpireDate)
                /\ obs' = [obs EXCEPT !.fileWrites = Append(@, newExpireDate)]
                /\ \E result \in WriteResults :
                       /\ expireFile' = FileAfterWrite(result, newExpireDate)
                       /\ IF result = "ok"
                          THEN pc' = "finally" /\ UNCHANGED scriptErrorMessage
                          ELSE Catch(ErrWrite)
           ELSE IF c = "unchanged"
           THEN /\ infoMessage' = FailMessage(newExpireDate)
                /\ pc' = "finally"
                /\ UNCHANGED <<expireFile, scriptErrorMessage, obs>>
           ELSE /\ Catch(ErrNoDate)
                /\ UNCHANGED <<expireFile, infoMessage, obs>>
    /\ UNCHANGED <<lastExpireDate, currentExpireDate, page, attempt, solved, code,
                   newExpireDateRaw, newExpireDate, webdavMessage, finalNotification>>

\* the if / else if / else after the fresh read, with the write of expire.txt
Classify ==
    /\ pc = "classify"
    /\ LET c == classify(newExpireDate, lastExpireDate)
       IN  IF c = "success"
           THEN /\ infoMessage' = SuccessMessage(newExpireDate)
                /\ obs' = [obs EXCEPT !.fileWrites = Append(@, newExpireDate)]
                /\ \E result \in WriteResults :
                       /\ expireFile' = FileAfterWrite(result, newExpireDate)
                       /\ IF result = "ok"
                          THEN pc' = "finally" /\ UNCHANGED scriptErrorMessage
                          ELSE Catch(ErrWrite)
           ELSE IF c = "unchanged"
           THEN /\ infoMessage' = FailMessage(newExpireDate)
                /\ pc' = "finally"
                /\ UNCHANGED <<expireFile, scriptErrorMessage, obs>>
           ELSE /\ Catch(ErrNoDate)
                /\ UNCHANGED <<expireFile, infoMessage, obs>>
    /\ UNCHANGED <<lastExpireDate, currentExpireDate, page, attempt, solved, code,
                   newExpireDateRaw, newExpireDate, webdavMessage, finalNotification>>

\* ------------------------------------------------------------------------
\* The finally block, src/main.mjs:322-355
\* ------------------------------------------------------------------------

\* Mutant of CleanupClose: stop and close are started but not awaited
CleanupClose_noAwait ==
    /\ pc = "finally"
    /\ obs' = [obs EXCEPT !.cleanupRuns = @ + 1]
    /\ pc' = "upload"
    /\ UNCHANGED <<expireFile, lastExpireDate, currentExpireDate, page, attempt, solved,
                   code, newExpireDateRaw, newExpireDate, infoMessage,
                   scriptErrorMessage, webdavMessage, finalNotification>>

\* the wait, recorder.stop() and browser.close(); a rejection of either leaves
\* the finally block and ends the process
CleanupClose ==
    /\ pc = "finally"
    /\ \E closeOk \in BOOLEAN :
           /\ obs' = [obs EXCEPT !.cleanupRuns = @ + 1, !.closed = closeOk]
           /\ pc' = IF closeOk THEN "upload" ELSE "aborted"
    /\ UNCHANGED <<expireFile, lastExpireDate, currentExpireDate, page, attempt, solved,
                   code, newExpireDateRaw, newExpireDate, infoMessage,
                   scriptErrorMessage, webdavMessage, finalNotification>>

\* uploadToWebDAV(localFile, remoteFile): '' when not configured, else a status
UploadResults == {"notConfigured", "uploaded", "failed"}

\* Mutant of uploadToWebDAV: a failed upload is logged and reported as ''
uploadToWebDAV_silent(result) ==
    IF result = "uploaded" THEN UploadOkMessage ELSE EmptyStr

uploadToWebDAV(result) ==
    IF result = "notConfigured" THEN EmptyStr
    ELSE IF result = "uploaded" THEN UploadOkMessage
    ELSE UploadFailMessage

Upload ==
    /\ pc = "upload"
    /\ \E recordingExists \in BOOLEAN, result \in UploadResults :
           IF recordingExists
           THEN /\ webdavMessage' = uploadToWebDAV(result)
                /\ obs' = [obs EXCEPT !.upload = result]
           ELSE /\ webdavMessage' = EmptyStr
                /\ obs' = [obs EXCEPT !.upload = "noRecording"]
    /\ pc' = "notify"
    /\ UNCHANGED <<expireFile, lastExpireDate, currentExpireDate, page, attempt, solved,
                   code, newExpireDateRaw, newExpireDate, infoMessage,
                   scriptErrorMessage, finalNotification>>

\* Mutant of composeFinal: the info message is looked at before the error message
composeFinal_infoFirst(err, info, dav) ==
    IF info # EmptyStr
    THEN IF dav # EmptyStr THEN info \o <<Separator>> \o dav ELSE info
    ELSE IF err # EmptyStr
    THEN IF dav # EmptyStr THEN err \o <<Separator>> \o dav ELSE err
    ELSE IF dav # EmptyStr THEN dav
    ELSE EmptyStr

\* the final message from the error message, the info message and the upload status
composeFinal(err, info, dav) ==
    IF err # EmptyStr
    THEN IF dav # EmptyStr THEN err \o <<Separator>> \o dav ELSE err
    ELSE IF info # EmptyStr
    THEN IF dav # EmptyStr THEN info \o <<Separator>> \o dav ELSE info
    ELSE IF dav # EmptyStr THEN dav
    ELSE EmptyStr

\* sendTelegramMessage(message): skipped without token or chat id; a failed or
\* refused POST is logged
TelegramResults == {"notConfigured", "ok", "notOk", "networkError"}

\* Mutant of TelegramPosts: a refused or failed POST is sent again
TelegramPosts_retry(tg) ==
    IF tg = "notConfigured" THEN 0 ELSE IF tg = "ok" THEN 1 ELSE 2

\* the POSTs one call makes: none without token or chat id, else one fetch
TelegramPosts(tg) == IF tg = "notConfigured" THEN 0 ELSE 1

Notify ==
    /\ pc = "notify"
    /\ LET msg == composeFinal(scriptErrorMessage, infoMessage, webdavMessage)
       IN  /\ finalNotification' = msg
           /\ IF msg # EmptyStr
              THEN \E tg \in TelegramResults :
                       obs' = [obs EXCEPT
                                  !.sendCalls = Append(@, msg),
                                  !.tgResult = tg,
                                  !.tgPosts = @ + TelegramPosts(tg)]
              ELSE UNCHANGED obs
    /\ pc' = "done"
    /\ UNCHANGED <<expireFile, lastExpireDate, currentExpireDate, page, attempt, solved,
                   code, newExpireDateRaw, newExpireDate, infoMessage,
                   scriptErrorMessage, webdavMessage>>

\* ------------------------------------------------------------------------
\* The next scheduled run, src/.github/workflows/main.yml:32-46: a new process;
\* after a run that ended normally the workflow touches expire.txt
\* ------------------------------------------------------------------------
Terminal == {"done", "aborted"}

NextRun ==
    /\ pc \in Terminal
    /\ expireFile' = IF pc = "done" THEN FileOf(expireFile.content) ELSE expireFile
    /\ obs' = [NoObs EXCEPT !.fileAtStart = expireFile']
    /\ pc' = "start"
    /\ lastExpireDate' = EmptyStr
    /\ currentExpireDate' = EmptyStr
    /\ page' = BlankPage
    /\ attempt' = 0
    /\ solved' = FALSE
    /\ code' = EmptyStr
    /\ newExpireDateRaw' = EmptyStr
    /\ newExpireDate' = EmptyStr
    /\ infoMessage' = EmptyStr
    /\ scriptErrorMessage' = EmptyStr
    /\ webdavMessage' = EmptyStr
    /\ finalNotification' = EmptyStr

Next ==
    \/ ReadExpireFile
    \/ Login
    \/ GotoPanel
    \/ OpenContract
    \/ ReadCurrentDate
    \/ Initiate
    \/ CaptchaAbsent
    \/ CaptchaRecognize
    \/ CaptchaFill
    \/ CaptchaSubmit
    \/ AfterLoop
    \/ CheckTooEarly
    \/ Confirm
    \/ Reread
    \/ Classify
    \/ Throw
    \/ CleanupClose
    \/ Upload
    \/ Notify
    \/ NextRun

Spec == Init /\ [][Next]_vars

\* ------------------------------------------------------------------------
\* One run of the script to its end. The script is one sequential async
\* function: when the operation it awaits returns or fails, its next step is
\* taken, so a step that stays possible is eventually taken.
\* ------------------------------------------------------------------------
RunStep ==
    \/ ReadExpireFile
    \/ Login
    \/ GotoPanel
    \/ OpenContract
    \/ ReadCurrentDate
    \/ Initiate
    \/ CaptchaAbsent
    \/ CaptchaRecognize
    \/ CaptchaFill
    \/ CaptchaSubmit
    \/ AfterLoop
    \/ CheckTooEarly
    \/ Confirm
    \/ Reread
    \/ Classify
    \/ Throw
    \/ CleanupClose
    \/ Upload
    \/ Notify

SpecRun == Init /\ [][RunStep]_vars /\ WF_vars(RunStep)

\* ------------------------------------------------------------------------
\* The composition of the final message on its own, src/main.mjs:328-354:
\* the finally block after the browser was closed, entered with every
\* error message and info message the try block can leave, and with none
\* ------------------------------------------------------------------------
ErrorMessages == {EmptyStr} \cup {ErrorMessage(e) : e \in {ErrCaptcha, ErrNoDate, ErrStep, ErrWrite}}
InfoMessages ==
    {EmptyStr, NotYetMessage(EmptyStr, DatePadded), NotYetMessage(DateUnpadded, DatePadded),
     SuccessMessage(DateNext), SuccessMessage(Unknown), FailMessage(DatePadded)}

InitCompose ==
    /\ pc = "upload"
    /\ expireFile \in InitialFiles
    /\ lastExpireDate = EmptyStr
    /\ currentExpireDate = EmptyStr
    /\ page = BlankPage
    /\ attempt = 0
    /\ solved = FALSE
    /\ code = EmptyStr
    /\ newExpireDateRaw = EmptyStr
    /\ newExpireDate = EmptyStr
    /\ infoMessage \in InfoMessages
    /\ scriptErrorMessage \in ErrorMessages
    /\ webdavMessage = EmptyStr
    /\ finalNotification = EmptyStr
    /\ obs = [NoObs EXCEPT !.fileAtStart = expireFile, !.cleanupRuns = 1, !.closed = TRUE]

NextCompose == Upload \/ Notify

SpecCompose == InitCompose /\ [][NextCompose]_vars

\* ------------------------------------------------------------------------
\* formatChineseDate on its own, src/main.mjs:10-15, applied as the script
\* applies it: to the text read from the page (line 296) and, in the
\* comparison of line 300, to a value that an earlier application produced
\* ------------------------------------------------------------------------
WfYears == {<<"2", "0", "2", "5">>, <<"1", "9", "9", "9">>}
WfMonths == {<<"1">>, <<"0", "1">>, <<"7">>, <<"0", "9">>, <<"1", "2">>}
WfDays == {<<"1">>, <<"0", "1">>, <<"9">>, <<"0", "7">>, <<"3", "1">>}
\* every text that is a four-digit year and a month and a day of one or two
\* digits, each followed by its character
WellFormedDates ==
    {y \o <<Nen>> \o mo \o <<Gatsu>> \o d \o <<Nichi>> :
        y \in WfYears, mo \in WfMonths, d \in WfDays}

InitNormalize ==
    /\ pc = "normalize"
    /\ newExpireDateRaw \in WellFormedDates
    /\ expireFile = NoFile
    /\ lastExpireDate = EmptyStr
    /\ currentExpireDate = EmptyStr
    /\ page = BlankPage
    /\ attempt = 0
    /\ solved = FALSE
    /\ code = EmptyStr
    /\ newExpireDate = EmptyStr
    /\ infoMessage = EmptyStr
    /\ scriptErrorMessage = EmptyStr
    /\ webdavMessage = EmptyStr
    /\ finalNotification = EmptyStr
    /\ obs = NoObs

\* const newExpireDate = formatChineseDate(newExpireDateRaw)
NormalizeFresh ==
    /\ pc = "normalize"
    /\ newExpireDate' = formatChineseDate(newExpireDateRaw)
    /\ pc' = "normalizeAgain"
    /\ UNCHANGED <<expireFile, lastExpireDate, currentExpireDate, page, attempt, solved,
                   code, newExpireDateRaw, infoMessage, scriptErrorMessage,
                   webdavMessage, finalNotification, obs>>

\* formatChineseDate(lastExpireDate) for a lastExpireDate that is a value
\* formatChineseDate returned; lastExpireDate keeps the result
NormalizeStored ==
    /\ pc = "normalizeAgain"
    /\ lastExpireDate' = formatChineseDate(newExpireDate)
    /\ pc' = "normalized"
    /\ UNCHANGED <<expireFile, currentExpireDate, page, attempt, solved, code,
                   newExpireDateRaw, newExpireDate, infoMessage, scriptErrorMessage,
                   webdavMessage, finalNotification, obs>>

NextNormalize == NormalizeFresh \/ NormalizeStored

SpecNormalize == InitNormalize /\ [][NextNormalize]_vars

\* ------------------------------------------------------------------------
\* Properties
\* ------------------------------------------------------------------------
AfterTry == {"finally", "upload", "notify", "done", "aborted"}
InCleanup == {"upload", "notify", "done", "aborted"}
InfoKind == IF infoMessage = EmptyStr THEN "none" ELSE infoMessage[1].kind
\* the run went through the if / else if / else after the fresh read
Classified == obs.rereads = 1 /\ pc \in AfterTry
\* the run had no rejected page or file operation
NoStepFault == scriptErrorMessage \notin {ErrorMessage(ErrStep), ErrorMessage(ErrWrite)}
\* a zero-padded date and nothing else
IsNormalizedDate(s) == Len(s) = 11 /\ MatchAt(s, 1).found /\ MatchAt(s, 1).all = s

\* C1: whichever way the try block ends (success, unchanged, not yet eligible,
\* or an error thrown at any step), the finally block is entered exactly once:
\* the count is 0 before it and 1 from its first step to the end of the run.
C1_CleanupExactlyOnce ==
    obs.cleanupRuns = IF pc \in InCleanup THEN 1 ELSE 0

C1_Witness ==
    /\ pc = "done"
    /\ scriptErrorMessage = ErrorMessage(ErrCaptcha)
    /\ obs.cleanupRuns = 1

\* C2: when a fresh date was extracted, the success branch is taken iff the
\* normalized fresh date differs from the normalized persisted value, and the
\* unchanged branch iff they are equal.
C2_ClassifyIffDiffers ==
    (Classified /\ newExpireDateRaw # EmptyStr) =>
        /\ InfoKind = "success" <=> newExpireDate # formatChineseDate(lastExpireDate)
        /\ InfoKind = "unchanged" <=> newExpireDate = formatChineseDate(lastExpireDate)

C2_Witness ==
    /\ Classified
    /\ InfoKind = "success"
    /\ lastExpireDate = DatePadded
    /\ newExpireDate = DateNext

\* C3: when the extractor returns nothing after the renewal, the run ends with
\* the date-not-found error, takes neither the success nor the unchanged
\* branch, and writes nothing to expire.txt.
C3_EmptyFreshIsFatal ==
    (Classified /\ newExpireDateRaw = EmptyStr) =>
        /\ scriptErrorMessage = ErrorMessage(ErrNoDate)
        /\ InfoKind \notin {"success", "unchanged"}
        /\ obs.fileWrites = <<>>

\* C4: expire.txt is read at most once and written at most once per run; it
\* is written only when a fresh date is present and differs from the persisted
\* value; a run that ends otherwise leaves the file as it found it.
C4_FileFrame ==
    LET freshChanged ==
            /\ newExpireDateRaw # EmptyStr
            /\ newExpireDate # formatChineseDate(lastExpireDate)
    IN  /\ obs.fileReads <= 1
        /\ Len(obs.fileWrites) <= 1
        /\ obs.fileWrites # <<>> => (obs.rereads = 1 /\ freshChanged)
        /\ (pc \in Terminal /\ ~(Classified /\ freshChanged /\ InfoKind = "success"))
               => expireFile = obs.fileAtStart

\* C5: every value a run writes to expire.txt is a normalized zero-padded
\* date: never a placeholder or raw cell text.
C5_WritesAreDates ==
    \A i \in 1..Len(obs.fileWrites) : IsNormalizedDate(obs.fileWrites[i])

\* C6: the code input is filled and the submit click made only with a
\* recognized code of at least 4 characters.
C6_NoShortCodeSubmitted ==
    /\ \A i \in 1..Len(obs.fills) : Len(obs.fills[i]) >= 4
    /\ obs.submitClicks <= Len(obs.fills)
    /\ pc \in {"fill", "submit"} => Len(code) >= 4

C6_Witness ==
    /\ obs.screenshots = {1}
    /\ obs.submitClicks = 1
    /\ Len(obs.fills) = 1
    /\ Len(obs.fills[1]) = 4

\* C7: a run makes at most 3 recognition requests, 3 fills and 3 submit
\* clicks, never starts a fourth attempt, and after the third unsuccessful
\* attempt ends with the CAPTCHA error without the final confirmation.
C7_AtMostThreeAttempts ==
    /\ obs.recogRequests <= 3
    /\ Len(obs.fills) <= 3
    /\ obs.submitClicks <= 3
    /\ attempt <= 4
    /\ pc \in {"captcha", "fill", "submit"} => attempt <= 3
    /\ (attempt = 4 /\ pc # "afterLoop") =>
           /\ scriptErrorMessage = ErrorMessage(ErrCaptcha)
           /\ obs.finalClicks = 0

C7_Witness ==
    /\ obs.recogRequests = 3
    /\ obs.submitClicks = 3
    /\ scriptErrorMessage = ErrorMessage(ErrCaptcha)

\* C8: when an image is present and all 3 attempts fail, the run ends with the
\* CAPTCHA error, the final confirmation is not clicked, and the cleanup sends
\* one notification: the error summary, followed by the upload status if any.
C8_UnresolvedIsReported ==
    (pc \in Terminal /\ attempt = maxCaptchaTries + 1 /\ ~solved) =>
        /\ scriptErrorMessage = ErrorMessage(ErrCaptcha)
        /\ obs.finalClicks = 0
        /\ obs.sendCalls =
               << IF webdavMessage # EmptyStr
                  THEN ErrorMessage(ErrCaptcha) \o <<Separator>> \o webdavMessage
                  ELSE ErrorMessage(ErrCaptcha) >>

\* C9: a probe that finds no inline image makes the resolver succeed in that
\* attempt: no recognition request, no fill, no submit, no screenshot, and no
\* error.
C9_NoImageSucceeds ==
    [][(attempt \in obs'.probesAbsent /\ attempt \notin obs.probesAbsent) =>
           /\ solved'
           /\ pc' = "afterLoop"
           /\ scriptErrorMessage' = EmptyStr
           /\ obs'.recogRequests = obs.recogRequests
           /\ obs'.fills = obs.fills
           /\ obs'.submitClicks = obs.submitClicks
           /\ obs'.screenshots = obs.screenshots]_vars

\* C10: when the page shown after the renewal was initiated carries the
\* too-early marker, the run ends not-yet-eligible and without an error
\* message, whatever else the page contains.  Stated for the runs in which no
\* page or file operation was rejected.
C10_TooEarlyEndsNotYet ==
    (pc \in AfterTry /\ obs.initiated /\ obs.renewPage.marker /\ NoStepFault) =>
        /\ InfoKind = "notYet"
        /\ scriptErrorMessage = EmptyStr

\* C11: when the page shown after the renewal was initiated carries the
\* too-early marker, nothing is clicked beyond the initiation: no CAPTCHA
\* submit click, no final confirmation click, and no second read of the
\* contract page.
C11_TooEarlyNoFurtherClick ==
    (obs.initiated /\ obs.renewPage.marker) =>
        /\ obs.submitClicks = 0
        /\ obs.finalClicks = 0
        /\ obs.rereads = 0

\* C12: the final message is the error message when there is one, else the
\* info message when there is one, each followed by a separator and the
\* upload status when that is not empty; with neither, it is the upload
\* status alone; with none of the three, no message is composed and nothing
\* is sent.
C12_Composition ==
    pc = "done" =>
        /\ scriptErrorMessage # EmptyStr =>
               finalNotification =
                   IF webdavMessage = EmptyStr THEN scriptErrorMessage
                   ELSE scriptErrorMessage \o <<Separator>> \o webdavMessage
        /\ (scriptErrorMessage = EmptyStr /\ infoMessage # EmptyStr) =>
               finalNotification =
                   IF webdavMessage = EmptyStr THEN infoMessage
                   ELSE infoMessage \o <<Separator>> \o webdavMessage
        /\ (scriptErrorMessage = EmptyStr /\ infoMessage = EmptyStr) =>
               finalNotification = webdavMessage
        /\ (scriptErrorMessage = EmptyStr /\ infoMessage = EmptyStr
                /\ webdavMessage = EmptyStr) =>
               (finalNotification = EmptyStr /\ obs.sendCalls = <<>>)

\* the run with an error message, an info message and an upload status
C12_Witness ==
    /\ pc = "done"
    /\ scriptErrorMessage # EmptyStr
    /\ infoMessage # EmptyStr
    /\ webdavMessage # EmptyStr
    /\ finalNotification = scriptErrorMessage \o <<Separator>> \o webdavMessage

\* C13: the step that composes a final message hands it to
\* sendTelegramMessage exactly once; that call makes at most one POST (one
\* unless token or chat id is missing, never two), and whatever becomes of
\* the POST the step ends the run normally and leaves the error message, the
\* info message, the upload status and expire.txt as they were.
C13_SingleSendAttempt ==
    [][pc = "notify" =>
          /\ pc' = "done"
          /\ UNCHANGED <<scriptErrorMessage, infoMessage, webdavMessage, expireFile>>
          /\ finalNotification' # EmptyStr =>
                 /\ obs'.sendCalls = <<finalNotification'>>
                 /\ obs'.tgPosts = IF obs'.tgResult = "notConfigured" THEN 0 ELSE 1]_vars

\* a run whose only POST failed on the network and that ended normally with
\* its success message
C13_Witness ==
    /\ pc = "done"
    /\ obs.tgResult = "networkError"
    /\ obs.tgPosts = 1
    /\ obs.sendCalls = <<finalNotification>>
    /\ InfoKind = "success"
    /\ scriptErrorMessage = EmptyStr

\* C14: when the recording exists and its upload fails, uploadToWebDAV
\* returns the failure status instead of throwing, the finally block goes on
\* to the composition, and the message handed to sendTelegramMessage is the
\* outcome message (the error message, else the info message) followed by
\* the separator and the failure status.
C14_UploadFailureReported ==
    obs.upload = "failed" =>
        /\ pc \in {"notify", "done"}
        /\ webdavMessage = UploadFailMessage
        /\ pc = "done" =>
               obs.sendCalls =
                   << (IF scriptErrorMessage # EmptyStr THEN scriptErrorMessage
                       ELSE infoMessage)
                      \o <<Separator>> \o UploadFailMessage >>

\* a renewed run whose upload failed: the success message with the failure
\* status appended was sent
C14_Witness ==
    /\ pc = "done"
    /\ obs.upload = "failed"
    /\ InfoKind = "success"
    /\ scriptErrorMessage = EmptyStr
    /\ obs.sendCalls = <<infoMessage \o <<Separator>> \o UploadFailMessage>>

\* C15: a run that entered the finally block ends having attempted the upload
\* step, composed the final message and handed it to sendTelegramMessage,
\* also when stopping the recorder or closing the browser failed (stated for
\* runs whose try block met no rejected page or file operation).
C15_CleanupStepsIndependent ==
    (pc \in Terminal /\ obs.cleanupRuns = 1 /\ NoStepFault) =>
        /\ obs.upload # "notRun"
        /\ finalNotification # EmptyStr
        /\ obs.sendCalls = <<finalNotification>>

\* C16: when the finally block is entered the run has one outcome: never
\* both an info message (success, unchanged or not yet eligible) and an
\* error message, also when writing the new date to expire.txt failed
\* (stated for runs that read no fresh value or read a date).
C16_OneOutcome ==
    (pc \in AfterTry /\ (newExpireDate = EmptyStr \/ IsNormalizedDate(newExpireDate))) =>
        ~(infoMessage # EmptyStr /\ scriptErrorMessage # EmptyStr)

\* C17: for every date text with a four-digit year and a month and a day of
\* one or two digits, applying formatChineseDate to the result of
\* formatChineseDate gives that result again, and the result is the
\* zero-padded form.
C17_NormalizeIdempotent ==
    pc = "normalized" =>
        /\ lastExpireDate = newExpireDate
        /\ IsNormalizedDate(newExpireDate)

\* a date with a one-digit month and day: the first application changed it,
\* the second did not
C17_Witness ==
    /\ pc = "normalized"
    /\ Len(newExpireDateRaw) = 9
    /\ newExpireDate # newExpireDateRaw
    /\ lastExpireDate = newExpireDate

\* the text is a date and nothing else
IsDateText(s) == MatchAt(s, 1).found /\ MatchAt(s, 1).all = s
\* the number a text of digits denotes
DigitValue(c) ==
    CHOOSE n \in 0..9 : <<"0", "1", "2", "3", "4", "5", "6", "7", "8", "9">>[n + 1] = c
RECURSIVE NumberOf(_)
NumberOf(ds) ==
    IF ds = <<>> THEN 0
    ELSE 10 * NumberOf(SubSeq(ds, 1, Len(ds) - 1)) + DigitValue(ds[Len(ds)])
\* the calendar date a date text denotes: year, month and day as numbers
CalendarDate(s) ==
    <<NumberOf(MatchAt(s, 1).y), NumberOf(MatchAt(s, 1).mo), NumberOf(MatchAt(s, 1).d)>>

\* C18: when the value read from expire.txt and the value read from the page
\* after the renewal are both dates, the run is classified by the calendar
\* dates they denote and not by their spelling: the same date, padded or
\* not, gives the unchanged message and no write of expire.txt; different
\* dates give the success message.
C18_ComparedNormalized ==
    (Classified /\ IsDateText(newExpireDateRaw) /\ IsDateText(lastExpireDate)) =>
        IF CalendarDate(newExpireDateRaw) = CalendarDate(lastExpireDate)
        THEN InfoKind = "unchanged" /\ obs.fileWrites = <<>>
        ELSE InfoKind = "success"

\* expire.txt held the unpadded spelling of the date the page shows padded
C18_Witness ==
    /\ Classified
    /\ lastExpireDate = DateUnpadded
    /\ newExpireDateRaw = DatePadded
    /\ InfoKind = "unchanged"
    /\ obs.fileWrites = <<>>

\* C19: an attempt whose recognition request failed or answered an empty or
\* too-short code takes the screenshot named after the attempt, types and
\* submits nothing, uses up that one attempt and goes on with the loop
\* without an error.
C19_RecognitionFailureContinues ==
    [][(pc = "captcha" /\ obs'.recogRequests = obs.recogRequests + 1 /\ pc' # "fill") =>
          /\ attempt \in obs'.screenshots
          /\ obs'.fills = obs.fills
          /\ obs'.submitClicks = obs.submitClicks
          /\ attempt' = attempt + 1
          /\ scriptErrorMessage' = EmptyStr
          /\ pc' = IF attempt < maxCaptchaTries THEN "captcha" ELSE "afterLoop"]_vars

\* C20: an attempt whose code was submitted without a navigation within the
\* timeout reloads the page, uses up that one attempt and, while attempts
\* remain, starts the next one without an error.
C20_SubmitTimeoutRetries ==
    [][(pc = "submit" /\ obs'.submitClicks = obs.submitClicks + 1 /\ ~solved') =>
          /\ obs'.reloads = obs.reloads + 1
          /\ attempt' = attempt + 1
          /\ scriptErrorMessage' = EmptyStr
          /\ attempt < maxCaptchaTries => pc' = "captcha"]_vars

\* C21 as stated: in the submit step the promise that settles first, the
\* navigation wait or the click, decides the attempt: the attempt is solved
\* exactly when that promise was fulfilled.
C21_FirstSettledDecides ==
    [][(pc = "submit" /\ obs'.submitClicks = obs.submitClicks + 1) =>
          (solved' <=> obs'.firstSettled = "fulfilled")]_vars

\* C21 amended: the submit step waits until both promises have settled and
\* the navigation wait alone decides the attempt, whichever settled first
\* and however the click ended; a navigation within the timeout solves the
\* attempt and leaves the loop without an error.
C21_NavigationDecides ==
    [][(pc = "submit" /\ obs'.submitClicks = obs.submitClicks + 1) =>
          /\ solved' <=> obs'.navStatus = "fulfilled"
          /\ obs'.navStatus = "fulfilled" =>
                 (pc' = "afterLoop" /\ scriptErrorMessage' = EmptyStr)]_vars

\* the click was rejected first and the navigation still came: solved
C21_Witness ==
    /\ pc = "afterLoop"
    /\ solved
    /\ obs.submitClicks = 1
    /\ obs.firstSettled = "rejected"
    /\ obs.navStatus = "fulfilled"

\* C22: the classification is a function of the fresh value and the value
\* read from expire.txt alone, so two runs that differ only in the date read
\* before the renewal end in the same class with the same write: whatever
\* currentExpireDate is, a classified run has the success message and one
\* write of the fresh date when the fresh date differs from the normalized
\* persisted value, the unchanged message and no write when it equals it,
\* and neither when there is no fresh date.
C22_IgnoresPreRenewalDate ==
    Classified =>
        LET differs == newExpireDate # formatChineseDate(lastExpireDate)
        IN  /\ InfoKind = IF newExpireDate = EmptyStr THEN "none"
                          ELSE IF differs THEN "success" ELSE "unchanged"
            /\ obs.fileWrites = IF newExpireDate # EmptyStr /\ differs
                                THEN <<newExpireDate>> ELSE <<>>

\* the date read before the renewal differs from the persisted one and from
\* the fresh one, which are equal: unchanged, no write
C22_Witness ==
    /\ Classified
    /\ newExpireDate = DatePadded
    /\ formatChineseDate(lastExpireDate) = DatePadded
    /\ currentExpireDate # DatePadded
    /\ InfoKind = "unchanged"
    /\ obs.fileWrites = <<>>

\* C23: the finally block is the last part of a run and its steps come in
\* order: the upload is attempted only after the recorder was stopped and
\* the browser closed and before anything was sent; the one message is
\* composed and sent only after the upload step, and is the status text of
\* the try block followed by the upload status; once the finally block is
\* entered the try block does nothing more.
C23_CleanupOrdered ==
    [][/\ (obs.upload = "notRun" /\ obs'.upload # "notRun") =>
              (obs.cleanupRuns = 1 /\ obs.closed /\ obs.sendCalls = <<>>)
       /\ (obs.sendCalls = <<>> /\ obs'.sendCalls # <<>>) =>
              /\ obs.closed
              /\ obs.upload # "notRun"
              /\ obs'.sendCalls =
                     << (IF scriptErrorMessage # EmptyStr THEN scriptErrorMessage
                         ELSE infoMessage)
                        \o (IF webdavMessage = EmptyStr THEN <<>>
                            ELSE <<Separator>> \o webdavMessage) >>
              /\ pc' = "done"
       /\ (pc \in AfterTry /\ pc' \in AfterTry) =>
              /\ UNCHANGED <<expireFile, infoMessage, scriptErrorMessage, page>>
              /\ obs'.fileWrites = obs.fileWrites
              /\ obs'.submitClicks = obs.submitClicks
              /\ obs'.finalClicks = obs.finalClicks
              /\ obs'.rereads = obs.rereads]_vars

\* a renewed run: closed, then uploaded, then the success message with the
\* upload status sent
C23_Witness ==
    /\ pc = "done"
    /\ obs.closed
    /\ obs.upload = "uploaded"
    /\ InfoKind = "success"
    /\ scriptErrorMessage = EmptyStr
    /\ obs.sendCalls = <<infoMessage \o <<Separator>> \o UploadOkMessage>>

\* C24: a run clicks the final confirmation, reads the contract page again
\* or ends with the success or the unchanged message only if the CAPTCHA
\* loop ended solved: by a probe that found no image or by a navigation
\* after a submitted code.
C24_ConfirmOnlyIfSolved ==
    (obs.finalClicks > 0 \/ obs.rereads > 0 \/ InfoKind \in {"success", "unchanged"}) =>
        /\ solved
        /\ obs.dumps = 1 \/ (obs.submitClicks > 0 /\ obs.navStatus = "fulfilled")

\* two attempts without a usable code, a third one submitted with a
\* navigation: the confirmation was clicked and the run renewed
C24_Witness ==
    /\ solved
    /\ attempt = 3
    /\ obs.screenshots = {1, 2}
    /\ obs.navStatus = "fulfilled"
    /\ obs.finalClicks = 1
    /\ InfoKind = "success"

\* C25: when the finally block is entered, and from then on, the info
\* message or the error message is not empty; so the composition never ends
\* with no message and never with the upload status alone: the message it
\* composes starts with the status text and is handed to sendTelegramMessage.
C25_StatusNeverEmpty ==
    /\ pc \in AfterTry => (infoMessage # EmptyStr \/ scriptErrorMessage # EmptyStr)
    /\ pc = "done" =>
           /\ finalNotification # EmptyStr
           /\ finalNotification # webdavMessage
           /\ obs.sendCalls = <<finalNotification>>

\* a not-yet-eligible run with an uploaded recording: the message is the
\* not-yet message followed by the upload status
C25_Witness ==
    /\ pc = "done"
    /\ InfoKind = "notYet"
    /\ scriptErrorMessage = EmptyStr
    /\ webdavMessage = UploadOkMessage
    /\ finalNotification = infoMessage \o <<Separator>> \o webdavMessage

\* C26: every run terminates: each pass of the CAPTCHA loop, however it
\* ends (no image, failed request, short code, navigation, timeout), is one
\* of at most three, and the run eventually leaves the finally block, at its
\* end or by a rejected stop or close.
C26_RunTerminates ==
    /\ [](pc \in {"captcha", "fill", "submit"} => attempt \in 1..maxCaptchaTries)
    /\ <>(pc \in Terminal)

\* three submitted codes without a navigation, then the error, and the
\* finally block ran to its end
C26_Witness ==
    /\ pc = "done"
    /\ attempt = maxCaptchaTries + 1
    /\ obs.reloads = maxCaptchaTries
    /\ scriptErrorMessage = ErrorMessage(ErrCaptcha)
    /\ obs.sendCalls # <<>>
====
